---- MODULE Spec2Model ----
(***************************************************************************)
(* SuperStore analytics dashboard (app.py): the data preparation and       *)
(* aggregation pipeline.  load_data() reads five sheets of a workbook,     *)
(* left-joins Orders to Location, Customers, Products and SalesTeam and    *)
(* adds derived columns; main() filters the joined table by the sidebar    *)
(* widgets and computes every rollup of the page in one script run.        *)
(*                                                                         *)
(* Tables are sequences of records (row order is kept, as in a DataFrame). *)
(* A missing value (NaN / NaT / None) is the value Null.  Dates are        *)
(* <<year, month, day>>; Excel date cells carry no time of day.  Sales,    *)
(* Profit and Quantity are integers; a quotient is kept as an exact        *)
(* fraction, or as one of the IEEE values inf, -inf, nan.                  *)
(***************************************************************************)
EXTENDS Integers, Sequences, FiniteSets, TLC

VARIABLES
    workbook,   \* 'SuperStore Data.xlsx' as found on disk
    cache,      \* st.cache_data memo of load_data(): <<>> or <<data>>
    widgets,    \* sidebar widget state: date_range, regions, categories, segments
    view,       \* what the last script run computed (filtered_data, rollups, raised)
    screen,     \* error boxes st.error has shown to the operator
    pc,         \* "start", "stopped" (st.stop), "done", "crashed" (uncaught exception)
    probe       \* twofold application of the filter (specification SpecFilter only)

vars == <<workbook, cache, widgets, view, screen, pc, probe>>

-----------------------------------------------------------------------------
(* Bounds of the model *)

\* longest Orders sheet of the small families
MaxOrders == 2
\* longest Location sheet of the join family
MaxLookupRows == 2
\* largest number of distinct states / sub-categories / customers (wide family)
MaxKeys == 17

-----------------------------------------------------------------------------
(* Values *)

Null == "<NA>"

\* Every string that is a grouping key, in the order Python compares strings.
Lex ==
    <<"Ann", "Bob", "C1", "C2", "C9", "CA", "Chairs", "Consumer", "Corporate", "East", "First Class",
      "Furniture", "K01", "K02", "K03", "K04", "K05", "K06", "K07", "K08", "K09",
      "K10", "K11", "K12", "K13", "K14", "K15", "K16", "K17", "K18", "K19", "K20",
      "NY", "Phones",
      "Standard Class", "Technology", "West">>

Rank(s) == CHOOSE i \in DOMAIN Lex : Lex[i] = s

KeyName ==
    <<"K01", "K02", "K03", "K04", "K05", "K06", "K07", "K08", "K09",
      "K10", "K11", "K12", "K13", "K14", "K15", "K16", "K17", "K18", "K19", "K20">>

Range(s) == {s[i] : i \in DOMAIN s}

\* the sequence s itself, as an enumerated tuple
Rows(s) == s \o <<>>

RECURSIVE SumSet(_, _)
\* sum of f[x] over the finite set S
SumSet(S, f) ==
    IF S = {} THEN 0
    ELSE LET x == CHOOSE y \in S : TRUE IN f[x] + SumSet(S \ {x}, f)

\* sum of column col over the rows of t (Series.sum)
SumCol(t, col) == SumSet(DOMAIN t, [i \in DOMAIN t |-> t[i][col]])

\* the rows of t that are in the set S, in order (boolean-mask indexing
\* data[mask], for a mask that is computed row by row)
Mask(t, S) == SelectSeq(t, LAMBDA r : r \in S)

-----------------------------------------------------------------------------
(* Dates: datetime.date, with the proleptic Gregorian ordinal *)

IsLeap(y) == (y % 4 = 0) /\ ((y % 100 # 0) \/ (y % 400 = 0))

DaysBeforeMonth == <<0, 31, 59, 90, 120, 151, 181, 212, 243, 273, 304, 334>>

Ordinal(d) ==
    LET y == d[1] - 1
    IN  y * 365 + (y \div 4) - (y \div 100) + (y \div 400)
        + DaysBeforeMonth[d[2]] + (IF d[2] > 2 /\ IsLeap(d[1]) THEN 1 ELSE 0)
        + d[3]

DateLE(a, b) == Ordinal(a) <= Ordinal(b)

\* (a - b).days
DaysBetween(a, b) == Ordinal(a) - Ordinal(b)

MonthNames ==
    <<"January", "February", "March", "April", "May", "June", "July",
      "August", "September", "October", "November", "December">>

\* Series.max() / Series.min() of dates; NaT for an empty series
MaxDate(S) == IF S = {} THEN Null ELSE CHOOSE d \in S : \A e \in S : DateLE(e, d)

MinDate(S) == IF S = {} THEN Null ELSE CHOOSE d \in S : \A e \in S : DateLE(d, e)

-----------------------------------------------------------------------------
(* load_data: the sheets, the derived Order columns, the four left joins *)

SheetNames == <<"Orders", "Location", "Customers", "Products", "SalesTeam">>

\* the columns load_data indexes by name, in the order it reaches them: the
\* two dates, each merge's key (on='...' needs it in both tables), Profit, Sales
Accesses ==
    <<<<"Orders", "Order Date">>, <<"Orders", "Ship Date">>,
      <<"Orders", "Location ID">>, <<"Location", "Location ID">>,
      <<"Orders", "Customer ID">>, <<"Customers", "Customer ID">>,
      <<"Orders", "Product ID">>, <<"Products", "Product ID">>,
      <<"Orders", "Sales Rep">>, <<"SalesTeam", "Sales Rep">>,
      <<"Orders", "Profit">>, <<"Orders", "Sales">>>>

\* the on= columns of the four merges
JoinKeys == {"Location ID", "Customer ID", "Product ID", "Sales Rep"}

\* orders['Year'], ['Month'], ['Quarter'], ['Month_Name']
WithDateParts(o) ==
    o @@ [Year |-> o.OrderDate[1],
          Month |-> o.OrderDate[2],
          Quarter |-> ((o.OrderDate[2] - 1) \div 3) + 1,
          Month_Name |-> MonthNames[o.OrderDate[2]]]

\* an inner join: a left row without a match is dropped
MatchesInner(l, right, key, nulls) ==
    LET hit == SelectSeq(right, LAMBDA r : r[key] = l[key])
    IN  [j \in DOMAIN hit |-> l @@ hit[j]]

\* the row appended for each left row: one per matching right row, in the
\* right table's order, or one all-null row when no right row matches
Matches(l, right, key, nulls) ==
    LET hit == SelectSeq(right, LAMBDA r : r[key] = l[key])
    IN  IF hit = <<>> THEN <<l @@ nulls>>
        ELSE [j \in DOMAIN hit |-> l @@ hit[j]]

RECURSIVE MergeLeft(_, _, _, _)
\* left.merge(right, on=key, how='left')
MergeLeft(left, right, key, nulls) ==
    IF left = <<>> THEN <<>>
    ELSE Matches(Head(left), right, key, nulls)
         \o MergeLeft(Tail(left), right, key, nulls)

NullLocation == [State |-> Null, Region |-> Null]
NullCustomer == [CustomerName |-> Null, Segment |-> Null]
NullProduct == [Category |-> Null, SubCategory |-> Null]
NullSalesRep == [SalesTeam |-> Null]

\* Profit / Sales * 100 on float64: no exception, division by zero gives
\* inf, -inf or nan
Quotient(p, s) ==
    IF s # 0 THEN [k |-> "num", n |-> p * 100, d |-> s]
    ELSE IF p > 0 THEN [k |-> "inf", n |-> 0, d |-> 0]
    ELSE IF p < 0 THEN [k |-> "-inf", n |-> 0, d |-> 0]
    ELSE [k |-> "nan", n |-> 0, d |-> 0]

\* data['Profit_Margin'], data['Days_to_Ship']
WithMetrics(r) ==
    r @@ [Profit_Margin |-> Quotient(r.Profit, r.Sales),
          Days_to_Ship |-> DaysBetween(r.ShipDate, r.OrderDate)]

\* the table load_data returns when nothing raises
JoinAll(wb) ==
    LET orders == [i \in DOMAIN wb.Orders |-> WithDateParts(wb.Orders[i])]
        m1 == MergeLeft(orders, wb.Location, "LocationID", NullLocation)
        m2 == MergeLeft(m1, wb.Customers, "CustomerID", NullCustomer)
        m3 == MergeLeft(m2, wb.Products, "ProductID", NullProduct)
        m4 == MergeLeft(m3, wb.SalesTeam, "SalesRep", NullSalesRep)
    IN  Rows([i \in DOMAIN m4 |-> WithMetrics(m4[i])])

\* least index of s whose element is in S (there is one)
First(s, S) ==
    CHOOSE i \in DOMAIN s : s[i] \in S /\ \A j \in 1..(i - 1) : s[j] \notin S

NoException == [type |-> "none", arg |-> "none"]

\* the first exception the try block of load_data raises, or NoException:
\* read_excel raises FileNotFoundError for no file and ValueError for no such
\* sheet; indexing or merging on an absent column raises KeyError
LoadException(wb) ==
    IF ~wb.exists
    THEN [type |-> "FileNotFoundError", arg |-> "SuperStore Data.xlsx"]
    ELSE IF wb.missing_sheets # {}
    THEN [type |-> "ValueError",
          arg |-> SheetNames[First(SheetNames, wb.missing_sheets)]]
    ELSE IF \E i \in DOMAIN Accesses : Accesses[i] \in wb.missing_cols
    THEN [type |-> "KeyError",
          arg |-> Accesses[First(Accesses, wb.missing_cols)][2]]
    ELSE NoException

\* which except clause handles it: `except FileNotFoundError` or `except Exception`
Handler(exc) ==
    IF exc.type = "FileNotFoundError" THEN "not_found" ELSE "error_loading"

\* what was wrong with the workbook when exc was raised
Cause(exc) ==
    CASE exc.type = "FileNotFoundError" -> "file missing"
      [] exc.type = "ValueError" -> "sheet missing"
      [] exc.type = "KeyError" /\ exc.arg \in JoinKeys -> "join key column missing"
      [] OTHER -> "column missing"

\* load_data(): the joined table, or the error box shown before st.stop()
load_data(wb) ==
    LET exc == LoadException(wb)
    IN  IF exc = NoException
        THEN [ok |-> TRUE, data |-> JoinAll(wb), exc |-> exc, box |-> "none"]
        ELSE [ok |-> FALSE, data |-> <<>>, exc |-> exc, box |-> Handler(exc)]

-----------------------------------------------------------------------------
(* main(): the sidebar widgets and the filter step *)

\* Series.unique() of a column, missing value included
Unique(t, col) == {t[i][col] : i \in DOMAIN t}

OrderDates(t) == {t[i].OrderDate : i \in DOMAIN t}

\* what each widget returns on the first run: value=[min, max], default=all options
Defaults(data) ==
    [date_range |-> <<MinDate(OrderDates(data)), MaxDate(OrderDates(data))>>,
     regions |-> Unique(data, "Region"),
     categories |-> Unique(data, "Category"),
     segments |-> Unique(data, "Segment")]

\* a single date taken as the lower bound of an open range
ApplyFiltersOneBoundIsLower(data, w) ==
    Mask(data, {r \in Range(data) :
            /\ Len(w.date_range) >= 1 => DateLE(w.date_range[1], r.OrderDate)
            /\ Len(w.date_range) = 2 => DateLE(r.OrderDate, w.date_range[2])
            /\ r.Region \in w.regions
            /\ r.Category \in w.categories
            /\ r.Segment \in w.segments})

\* the upper date bound taken exclusive
ApplyFiltersOpenEnd(data, w) ==
    IF Len(w.date_range) = 2
    THEN Mask(data, {r \in Range(data) :
            /\ DateLE(w.date_range[1], r.OrderDate)
            /\ ~DateLE(w.date_range[2], r.OrderDate)
            /\ r.Region \in w.regions
            /\ r.Category \in w.categories
            /\ r.Segment \in w.segments})
    ELSE Mask(data, {r \in Range(data) :
            /\ r.Region \in w.regions
            /\ r.Category \in w.categories
            /\ r.Segment \in w.segments})

\* an empty multiselect taken to mean "no restriction"
ApplyFiltersEmptyIsAll(data, w) ==
    LET In(x, S) == S = {} \/ x \in S
    IN  IF Len(w.date_range) = 2
        THEN Mask(data, {r \in Range(data) :
                /\ DateLE(w.date_range[1], r.OrderDate)
                /\ DateLE(r.OrderDate, w.date_range[2])
                /\ In(r.Region, w.regions)
                /\ In(r.Category, w.categories)
                /\ In(r.Segment, w.segments)})
        ELSE Mask(data, {r \in Range(data) :
                /\ In(r.Region, w.regions)
                /\ In(r.Category, w.categories)
                /\ In(r.Segment, w.segments)})

\* the index labels of the matching rows used as positions (iloc for loc):
\* row number Order ID of the table given, for each matching row
ApplyFiltersByPosition(data, w) ==
    LET hit == Mask(data, {r \in Range(data) :
                /\ Len(w.date_range) = 2 =>
                    /\ DateLE(w.date_range[1], r.OrderDate)
                    /\ DateLE(r.OrderDate, w.date_range[2])
                /\ r.Region \in w.regions
                /\ r.Category \in w.categories
                /\ r.Segment \in w.segments})
        inside == SelectSeq(hit, LAMBDA r : r.OrderID \in DOMAIN data)
    IN  Rows([k \in DOMAIN inside |-> data[inside[k].OrderID]])

\* the filter step: filtered_data = data[mask]
ApplyFilters(data, w) ==
    IF Len(w.date_range) = 2
    THEN Mask(data, {r \in Range(data) :
            /\ DateLE(w.date_range[1], r.OrderDate)
            /\ DateLE(r.OrderDate, w.date_range[2])
            /\ r.Region \in w.regions
            /\ r.Category \in w.categories
            /\ r.Segment \in w.segments})
    ELSE Mask(data, {r \in Range(data) :
            /\ r.Region \in w.regions
            /\ r.Category \in w.categories
            /\ r.Segment \in w.segments})

-----------------------------------------------------------------------------
(* groupby: one output row per distinct non-missing key, ordered by key *)

RECURSIVE ByFirst(_)
\* the second components of the pairs P, in increasing first component
ByFirst(P) ==
    IF P = {} THEN <<>>
    ELSE LET p == CHOOSE q \in P : \A r \in P : q[1] <= r[1]
         IN  <<p[2]>> \o ByFirst(P \ {p})

\* groupby(col) on a column of strings: the groups as [key, rows] in key
\* order; dropna=True leaves the rows with a missing key out of every group
GroupBy(t, col) ==
    LET keys == ByFirst({<<Rank(x), x>> : x \in Unique(t, col) \ {Null}})
    IN  Rows([j \in DOMAIN keys |->
                [key |-> keys[j],
                 rows |-> SelectSeq(t, LAMBDA r : r[col] = keys[j])]])

\* the key of row r in a grouping by Order Date: dt.to_period('M'),
\* ['Year', 'Quarter'], 'Year'
PeriodKey(r, by) ==
    CASE by = "month" -> <<r.OrderDate[1], r.OrderDate[2]>>
      [] by = "quarter" -> <<r.Year, r.Quarter>>
      [] by = "year" -> <<r.Year>>

\* the place of key k in the order groupby sorts such keys in
PeriodRank(k, by) ==
    CASE by = "month" -> k[1] * 12 + k[2]
      [] by = "quarter" -> k[1] * 4 + k[2]
      [] by = "year" -> k[1]

\* groupby on a key derived from Order Date: the groups in key order
GroupByDate(t, by) ==
    LET keys == ByFirst({<<PeriodRank(PeriodKey(t[i], by), by), PeriodKey(t[i], by)>> :
                            i \in DOMAIN t})
    IN  Rows([j \in DOMAIN keys |->
                [key |-> keys[j],
                 rows |-> SelectSeq(t, LAMBDA r : PeriodKey(r, by) = keys[j])]])

\* a / b of two Python numbers, or of a sum and a count (mean): exact fraction
Frac(a, b) == [k |-> "num", n |-> a, d |-> b]

Zero == Frac(0, 1)

NaN == [k |-> "nan", n |-> 0, d |-> 0]

\* Series.mean(): nan for no rows
Mean(t, col) == IF t = <<>> THEN NaN ELSE Frac(SumCol(t, col), Len(t))

\* Series.nunique(): distinct non-missing values
NUnique(t, col) == Cardinality(Unique(t, col) \ {Null})

-----------------------------------------------------------------------------
(* sort_values(ascending=False).head(n) *)

MaxOf(S, col) == CHOOSE m \in {x[col] : x \in S} : \A x \in S : x[col] <= m

RECURSIVE Descending(_, _)
\* every arrangement of the rows S in non-increasing col.  sort_values is
\* called with its default kind='quicksort', which numpy documents as not
\* stable: the order of rows with equal col is whatever the build's sort
\* (introsort, or a vectorised network sort) leaves.
Descending(S, col) ==
    IF S = {} THEN {<<>>}
    ELSE LET m == MaxOf(S, col)
             top == {x \in S : x[col] = m}
         IN  UNION {{<<x>> \o rest : rest \in Descending(S \ {x}, col)} : x \in top}

\* DataFrame.head(n)
FirstN(s, n) == SubSeq(s, 1, IF Len(s) < n THEN Len(s) ELSE n)

\* the outcomes of rows.sort_values(col, ascending=False).head(n)
TopN(rows, col, n) == {FirstN(s, n) : s \in Descending(Range(rows), col)}

-----------------------------------------------------------------------------
(* main(): the rollups of one script run over filtered_data f *)

\* program constants: head(10), head(10), head(15)
TopStates == 10
TopSubCategories == 10
TopCustomers == 15
\* Discount > 0.3, in percent
HighDiscount == 30

\* total_sales .. profit_margin
KPI(f) ==
    LET total_sales == SumCol(f, "Sales")
        total_profit == SumCol(f, "Profit")
        total_orders == Len(f)
    IN  [total_sales |-> total_sales,
         total_profit |-> total_profit,
         total_orders |-> total_orders,
         avg_order_value |->
            IF total_orders > 0 THEN Frac(total_sales, total_orders) ELSE Zero,
         profit_margin |->
            IF total_sales > 0 THEN Quotient(total_profit, total_sales) ELSE Zero]

\* one output row per group: Row[g] for each group g of groups
Agg(groups, Row) == Rows([j \in DOMAIN groups |-> Row[groups[j]]])

monthly_sales(f) ==
    LET gs == GroupByDate(f, "month")
    IN  Agg(gs, [g \in Range(gs) |->
                    [Period |-> g.key, Sales |-> SumCol(g.rows, "Sales")]])

quarterly_data(f) ==
    LET gs == GroupByDate(f, "quarter")
    IN  Agg(gs, [g \in Range(gs) |->
                    [Year |-> g.key[1], Quarter |-> g.key[2],
                     Sales |-> SumCol(g.rows, "Sales"),
                     Profit |-> SumCol(g.rows, "Profit"),
                     Quarter_Label |-> <<g.key[1], "-Q", g.key[2]>>]])

yearly_data(f) ==
    LET gs == GroupByDate(f, "year")
    IN  Agg(gs, [g \in Range(gs) |->
                    [Year |-> g.key[1], Sales |-> SumCol(g.rows, "Sales"),
                     Profit |-> SumCol(g.rows, "Profit"), Orders |-> Len(g.rows)]])

region_sales(f) ==
    LET gs == GroupBy(f, "Region")
    IN  Agg(gs, [g \in Range(gs) |->
                    [Region |-> g.key, Sales |-> SumCol(g.rows, "Sales")]])

\* groupby('State')['Sales'].sum(), before the sort
state_sales(f) ==
    LET gs == GroupBy(f, "State")
    IN  Agg(gs, [g \in Range(gs) |->
                    [State |-> g.key, Sales |-> SumCol(g.rows, "Sales")]])

top_states(f) == TopN(state_sales(f), "Sales", TopStates)

region_profit(f) ==
    LET gs == GroupBy(f, "Region")
    IN  Agg(gs, [g \in Range(gs) |->
                    [Region |-> g.key, Sales |-> SumCol(g.rows, "Sales"),
                     Profit |-> SumCol(g.rows, "Profit"),
                     Profit_Margin |->
                        Quotient(SumCol(g.rows, "Profit"), SumCol(g.rows, "Sales"))]])

category_data(f) ==
    LET gs == GroupBy(f, "Category")
    IN  Agg(gs, [g \in Range(gs) |->
                    [Category |-> g.key, Sales |-> SumCol(g.rows, "Sales"),
                     Profit |-> SumCol(g.rows, "Profit"),
                     Quantity |-> SumCol(g.rows, "Quantity")]])

\* groupby('Sub-Category')['Sales'].sum(), before the sort
subcat_group(f) ==
    LET gs == GroupBy(f, "SubCategory")
    IN  Agg(gs, [g \in Range(gs) |->
                    [SubCategory |-> g.key, Sales |-> SumCol(g.rows, "Sales")]])

subcat_sales(f) == TopN(subcat_group(f), "Sales", TopSubCategories)

cat_margin(f) ==
    LET gs == GroupBy(f, "Category")
    IN  Agg(gs, [g \in Range(gs) |->
                    [Category |-> g.key,
                     Profit_Margin |->
                        Quotient(SumCol(g.rows, "Profit"), SumCol(g.rows, "Sales"))]])

\* the bins of pd.cut(..., bins=[0, 0.1, 0.2, 0.3, 1.0], labels=[...]), in
\* percent, in the order of the categories
DiscountBins ==
    <<[lo |-> 0, hi |-> 10, label |-> "0-10%"],
      [lo |-> 10, hi |-> 20, label |-> "10-20%"],
      [lo |-> 20, hi |-> 30, label |-> "20-30%"],
      [lo |-> 30, hi |-> 100, label |-> "30%+"]>>

\* pd.cut of one value: right=True and include_lowest=False are the defaults,
\* so a bin is (lo, hi]; a value in no bin gets the missing value
Cut(x) ==
    LET hit == {i \in DOMAIN DiscountBins :
                    DiscountBins[i].lo < x /\ x <= DiscountBins[i].hi}
    IN  IF hit = {} THEN Null ELSE DiscountBins[CHOOSE i \in hit : TRUE].label

\* filtered_data['Discount_Range'] = pd.cut(...): the column is assigned on
\* filtered_data itself
WithDiscountRange(f) ==
    Rows([i \in DOMAIN f |-> f[i] @@ [Discount_Range |-> Cut(f[i].Discount)]])

\* groupby('Discount_Range')['Profit'].mean() on the categorical column g has.
\* obs is groupby's parameter observed, left to its default: FALSE (pandas
\* before 3.0) lists every category, an empty one with mean nan; TRUE (from
\* 3.0) lists the categories that occur.
discount_impact(g, obs) ==
    LET rows == [i \in DOMAIN DiscountBins |->
                    SelectSeq(g, LAMBDA r : r.Discount_Range = DiscountBins[i].label)]
        listed == SelectSeq([i \in DOMAIN DiscountBins |-> i],
                            LAMBDA i : ~obs \/ rows[i] # <<>>)
    IN  Rows([j \in DOMAIN listed |->
                [Discount_Range |-> DiscountBins[listed[j]].label,
                 Profit |-> Mean(rows[listed[j]], "Profit")]])

segment_data(f) ==
    LET gs == GroupBy(f, "Segment")
    IN  Agg(gs, [g \in Range(gs) |->
                    [Segment |-> g.key, Sales |-> SumCol(g.rows, "Sales"),
                     Customers |-> NUnique(g.rows, "CustomerID")]])

ship_data(f) ==
    LET gs == GroupBy(f, "ShipMode")
    IN  Agg(gs, [g \in Range(gs) |->
                    [Ship_Mode |-> g.key, Sales |-> SumCol(g.rows, "Sales"),
                     Orders |-> Len(g.rows)]])

\* groupby('Customer Name').agg(...), before the sort
customer_group(f) ==
    LET gs == GroupBy(f, "CustomerName")
    IN  Agg(gs, [g \in Range(gs) |->
                    [CustomerName |-> g.key, Sales |-> SumCol(g.rows, "Sales"),
                     Profit |-> SumCol(g.rows, "Profit"), Orders |-> Len(g.rows)]])

top_customers(f) == TopN(customer_group(f), "Sales", TopCustomers)

ship_time(f) ==
    LET gs == GroupBy(f, "ShipMode")
    IN  Agg(gs, [g \in Range(gs) |->
                    [ShipMode |-> g.key,
                     Days_to_Ship |-> Mean(g.rows, "Days_to_Ship")]])

\* Recency measured from each customer's earliest order
rfm_data_from_first(f) ==
    LET current_date == MaxDate(OrderDates(f))
        gs == GroupBy(f, "CustomerID")
    IN  Agg(gs, [g \in Range(gs) |->
                    [CustomerID |-> g.key,
                     Recency |-> DaysBetween(current_date, MinDate(OrderDates(g.rows))),
                     Frequency |-> Len(g.rows),
                     Monetary |-> SumCol(g.rows, "Sales")]])

\* RFM: current_date is the maximum Order Date of f itself
rfm_data(f) ==
    LET current_date == MaxDate(OrderDates(f))
        gs == GroupBy(f, "CustomerID")
    IN  Agg(gs, [g \in Range(gs) |->
                    [CustomerID |-> g.key,
                     Recency |-> DaysBetween(current_date, MaxDate(OrderDates(g.rows))),
                     Frequency |-> Len(g.rows),
                     Monetary |-> SumCol(g.rows, "Sales")]])

\* Series.idxmax(): label of the first largest value; ValueError on no rows
IdxMax(rows, label, col) ==
    IF rows = <<>> THEN [raised |-> "ValueError", value |-> Null]
    ELSE LET i == CHOOSE j \in DOMAIN rows :
                    /\ \A m \in DOMAIN rows : rows[m][col] <= rows[j][col]
                    /\ \A m \in 1..(j - 1) : rows[m][col] < rows[j][col]
         IN  [raised |-> "none", value |-> rows[i][label]]

\* total_orders / total_customers of two Python ints
PyDiv(a, b) ==
    IF b = 0 THEN [raised |-> "ZeroDivisionError", value |-> NaN]
    ELSE [raised |-> "none", value |-> Frac(a, b)]

NotComputed == "<not computed>"

\* the Executive Summary: the first exception ends the script run, and
\* nothing after it is computed
Summary(f) ==
    LET best_region == IdxMax(region_sales(f), "Region", "Sales")
        best_category == IdxMax(category_data(f), "Category", "Sales")
        total_customers == NUnique(f, "CustomerID")
        per_customer == PyDiv(Len(f), total_customers)
        loss_orders == Len(Mask(f, {r \in Range(f) : r.Profit < 0}))
        blank == [raised |-> "none", line |-> 0,
                  best_region |-> NotComputed, best_category |-> NotComputed,
                  total_customers |-> -1, avg_shipping_days |-> NaN,
                  orders_per_customer |-> NaN, loss_percentage |-> NaN,
                  high_discount |-> -1]
    IN  IF best_region.raised # "none"
        THEN [blank EXCEPT !.raised = best_region.raised, !.line = 499]
        ELSE IF best_category.raised # "none"
        THEN [blank EXCEPT !.raised = best_category.raised, !.line = 500,
                           !.best_region = best_region.value]
        ELSE IF per_customer.raised # "none"
        THEN [blank EXCEPT !.raised = per_customer.raised, !.line = 511,
                           !.best_region = best_region.value,
                           !.best_category = best_category.value,
                           !.total_customers = total_customers,
                           !.avg_shipping_days = Mean(f, "Days_to_Ship")]
        ELSE [raised |-> "none", line |-> 0,
              best_region |-> best_region.value,
              best_category |-> best_category.value,
              total_customers |-> total_customers,
              avg_shipping_days |-> Mean(f, "Days_to_Ship"),
              orders_per_customer |-> per_customer.value,
              loss_percentage |->
                  IF Len(f) > 0 THEN Frac(loss_orders * 100, Len(f)) ELSE Zero,
              high_discount |-> Len(Mask(f, {r \in Range(f) : r.Discount > HighDiscount}))]

\* everything one run of main() computes from the cached table and the widgets;
\* filtered_data is the table the filter step leaves, working_set the same
\* object once the discount column has been assigned (what every later step
\* reads); discount_impact is the table under either default of groupby's
\* observed, which the installed pandas fixes; one outcome per order the three
\* sorts may leave equal sums in
Pass(data, w) ==
    LET f == ApplyFilters(data, w)
        g == WithDiscountRange(f)
        fixed == [filtered_data |-> f,
                  working_set |-> g,
                  kpi |-> KPI(f),
                  monthly_sales |-> monthly_sales(f),
                  quarterly_data |-> quarterly_data(f),
                  yearly_data |-> yearly_data(f),
                  region_sales |-> region_sales(f),
                  region_profit |-> region_profit(f),
                  category_data |-> category_data(f),
                  cat_margin |-> cat_margin(f),
                  discount_impact |-> [obs \in BOOLEAN |-> discount_impact(g, obs)],
                  segment_data |-> segment_data(g),
                  ship_data |-> ship_data(g),
                  ship_time |-> ship_time(g),
                  rfm_data |-> rfm_data(g),
                  summary |-> Summary(g)]
    IN  {fixed @@ [top_states |-> ts, subcat_sales |-> ss, top_customers |-> tc] :
            ts \in top_states(f), ss \in subcat_sales(f), tc \in top_customers(g)}

-----------------------------------------------------------------------------
(* The workbooks the model starts from *)

StdLocation ==
    <<[LocationID |-> "L1", State |-> "NY", Region |-> "East"],
      [LocationID |-> "L2", State |-> "CA", Region |-> "West"]>>

StdCustomers ==
    <<[CustomerID |-> "C1", CustomerName |-> "Ann", Segment |-> "Consumer"],
      [CustomerID |-> "C2", CustomerName |-> "Bob", Segment |-> "Corporate"]>>

StdProducts ==
    <<[ProductID |-> "P1", Category |-> "Technology", SubCategory |-> "Phones"],
      [ProductID |-> "P2", Category |-> "Furniture", SubCategory |-> "Chairs"]>>

StdSalesTeam == <<[SalesRep |-> "Organic", SalesTeam |-> "Organic"]>>

Order(od, sd, mode, cust, loc, prod, rep, qty, disc, sales, profit) ==
    [OrderDate |-> od, ShipDate |-> sd, ShipMode |-> mode, CustomerID |-> cust,
     LocationID |-> loc, ProductID |-> prod, SalesRep |-> rep, Quantity |-> qty,
     Discount |-> disc, Sales |-> sales, Profit |-> profit]

\* Orders rows of the small families.  L9, C9, P9 and "Nobody" match no lookup
\* row.  The first family varies the date and the region of one customer's
\* orders (one row has a Ship Date before its Order Date); the second the
\* product, the customer and the amounts (one row has Sales = 0, one lies in a
\* leap year).  Discount is in percent: 0, 10, 30 and 100 lie on bin edges.
ProtosByDate ==
    {Order(<<2023, 1, 1>>, <<2023, 1, 4>>, "First Class", "C1", "L1", "P1",
           "Organic", 2, 0, 100, 10),
     Order(<<2023, 1, 10>>, <<2023, 1, 8>>, "Standard Class", "C1", "L1", "P1",
           "Organic", 1, 10, 50, 5),
     Order(<<2023, 4, 10>>, <<2023, 4, 15>>, "Standard Class", "C1", "L9", "P1",
           "Organic", 3, 30, 100, -20)}

ProtosByProduct ==
    {Order(<<2023, 4, 10>>, <<2023, 4, 15>>, "Standard Class", "C2", "L2", "P2",
           "Organic", 3, 20, 100, -20),
     Order(<<2023, 1, 1>>, <<2023, 1, 8>>, "Standard Class", "C2", "L2", "P2",
           "Organic", 1, 100, 0, 10),
     Order(<<2024, 3, 1>>, <<2024, 3, 3>>, "First Class", "C9", "L1", "P9",
           "Nobody", 5, 40, 200, 20)}

Protos == ProtosByDate \cup ProtosByProduct

\* every date the date_input calendar offers in the model
Calendar == {o.OrderDate : o \in Protos}

\* sequences over S of length lo..hi
SeqsOf(S, lo, hi) == UNION {[1..k -> S] : k \in lo..hi}

\* Order ID is the row's position in the sheet
Numbered(rows) == Rows([i \in DOMAIN rows |-> rows[i] @@ [OrderID |-> i]])

Book(orders, location, customers, products, salesteam) ==
    [exists |-> TRUE, missing_sheets |-> {}, missing_cols |-> {},
     Orders |-> Numbered(orders), Location |-> location, Customers |-> customers,
     Products |-> products, SalesTeam |-> salesteam]

\* small families: any 1..MaxOrders rows of one family over the standard
\* lookup sheets
SmallBooks ==
    {Book(os, StdLocation, StdCustomers, StdProducts, StdSalesTeam) :
        os \in SeqsOf(ProtosByDate, 1, MaxOrders)
               \cup SeqsOf(ProtosByProduct, 1, MaxOrders)}

\* wide family: n orders, each with its own state, sub-category and customer
WideSales(n, pattern, i) ==
    CASE pattern = "asc" -> 10 * i
      [] pattern = "desc" -> 10 * (n + 1 - i)
      [] pattern = "tie_low" -> IF i = 1 THEN 20 ELSE 10 * i
      [] pattern = "tie_high" -> IF i = n THEN 10 * (n - 1) ELSE 10 * i

WideBook(n, pattern) ==
    Book([i \in 1..n |->
            Order(<<2023, 1, 1>>, <<2023, 1, 4>>, "First Class", KeyName[i],
                  KeyName[i], KeyName[i], "Organic", 1, 0,
                  WideSales(n, pattern, i), 1)],
         [i \in 1..n |-> [LocationID |-> KeyName[i], State |-> KeyName[i],
                          Region |-> "East"]],
         [i \in 1..n |-> [CustomerID |-> KeyName[i], CustomerName |-> KeyName[i],
                          Segment |-> "Consumer"]],
         [i \in 1..n |-> [ProductID |-> KeyName[i], Category |-> "Technology",
                          SubCategory |-> KeyName[i]]],
         StdSalesTeam)

WideBooks ==
    {WideBook(n, p) : n \in {TopStates - 1, TopStates + 1, MaxKeys},
                      p \in {"asc", "desc", "tie_low", "tie_high"}}

\* join family: two orders over Location sheets of any rows, keys repeated or
\* absent, and over other lookup sheets with a repeated key
LocationRows ==
    {[LocationID |-> "L1", State |-> "NY", Region |-> "East"],
     [LocationID |-> "L1", State |-> "NY", Region |-> "West"],
     [LocationID |-> "L2", State |-> "CA", Region |-> "West"]}

JoinOrders ==
    <<Order(<<2023, 1, 1>>, <<2023, 1, 4>>, "First Class", "C1", "L1", "P1",
            "Organic", 2, 0, 100, 10),
      Order(<<2023, 1, 1>>, <<2023, 1, 3>>, "Standard Class", "C2", "L2", "P2",
            "Organic", 3, 20, 30, -20)>>

Repeated(sheet, rep, row) == IF sheet \in rep THEN <<row>> ELSE <<>>

JoinBooks ==
    {Book(JoinOrders, loc, StdCustomers, StdProducts, StdSalesTeam) :
        loc \in SeqsOf(LocationRows, 0, MaxLookupRows)}
    \cup
    {Book(JoinOrders, StdLocation,
          StdCustomers \o Repeated("Customers", rep,
              [CustomerID |-> "C1", CustomerName |-> "Bob", Segment |-> "Corporate"]),
          StdProducts \o Repeated("Products", rep,
              [ProductID |-> "P1", Category |-> "Furniture", SubCategory |-> "Chairs"]),
          StdSalesTeam \o Repeated("SalesTeam", rep,
              [SalesRep |-> "Organic", SalesTeam |-> "Field"])) :
        rep \in SUBSET {"Customers", "Products", "SalesTeam"} \ {{}}}

\* fault family: the file, one sheet, or one column load_data needs is absent
SoundBook ==
    Book(<<CHOOSE o \in Protos : o.Sales = 200>>, StdLocation, StdCustomers,
         StdProducts, StdSalesTeam)

FaultBooks ==
    {[SoundBook EXCEPT !.exists = FALSE]}
    \cup {[SoundBook EXCEPT !.missing_sheets = {SheetNames[i]}] : i \in DOMAIN SheetNames}
    \cup {[SoundBook EXCEPT !.missing_cols = {Accesses[i]}] : i \in DOMAIN Accesses}

GoodBooks == SmallBooks \cup WideBooks \cup JoinBooks

-----------------------------------------------------------------------------
(* The script runs *)

\* what st.sidebar.date_input can return: a tuple of 0, 1 or 2 dates between
\* min_value and max_value, the first not after the second
DateRanges(data) ==
    LET lo == MinDate(OrderDates(data))
        hi == MaxDate(OrderDates(data))
        days == {d \in Calendar : DateLE(lo, d) /\ DateLE(d, hi)}
    IN  {<<>>} \cup {<<d>> : d \in days}
        \cup {r \in days \X days : DateLE(r[1], r[2])}

\* the widget states one user interaction can lead to: one widget changes
Interactions(data, w) ==
    {[w EXCEPT !.date_range = dr] : dr \in DateRanges(data)}
    \cup {[w EXCEPT !.regions = x] : x \in SUBSET Unique(data, "Region")}
    \cup {[w EXCEPT !.categories = x] : x \in SUBSET Unique(data, "Category")}
    \cup {[w EXCEPT !.segments = x] : x \in SUBSET Unique(data, "Segment")}

\* every widget state
Criteria(data) ==
    [date_range : DateRanges(data),
     regions : SUBSET Unique(data, "Region"),
     categories : SUBSET Unique(data, "Category"),
     segments : SUBSET Unique(data, "Segment")]

NoView == <<>>

NoWidgets == <<>>

NoProbe == [stage |-> 0]

Outcome(v) == IF v.summary.raised = "none" THEN "done" ELSE "crashed"

\* first script run, load_data raises: the except clause shows its box and
\* st.stop() ends the run
LoadFails ==
    /\ cache = <<>>
    /\ pc \in {"start", "stopped"}
    /\ LET res == load_data(workbook)
       IN  /\ ~res.ok
           /\ screen' = screen \cup {[cause |-> Cause(res.exc), box |-> res.box]}
           /\ pc' = "stopped"
    /\ UNCHANGED <<workbook, cache, widgets, view, probe>>

\* first script run, load_data returns: the table is memoised, the widgets
\* return their defaults, and the page is computed
LoadAndRun ==
    /\ cache = <<>>
    /\ pc \in {"start", "stopped"}
    /\ LET res == load_data(workbook)
       IN  /\ res.ok
           /\ cache' = <<res.data>>
           /\ widgets' = Defaults(res.data)
           /\ \E v \in Pass(res.data, Defaults(res.data)) :
                /\ view' = v
                /\ pc' = Outcome(v)
    /\ UNCHANGED <<workbook, screen, probe>>

\* the user changes a widget: main() runs again on the memoised table
Rerun ==
    /\ cache # <<>>
    /\ pc \in {"done", "crashed"}
    /\ \E w \in Interactions(cache[1], widgets) :
        /\ widgets' = w
        /\ \E v \in Pass(cache[1], w) :
            /\ view' = v
            /\ pc' = Outcome(v)
    /\ UNCHANGED <<workbook, cache, screen, probe>>

\* after a failed load the operator puts another workbook in place
ReplaceWorkbook ==
    /\ pc = "stopped"
    /\ workbook' \in (FaultBooks \cup {SoundBook}) \ {workbook}
    /\ UNCHANGED <<cache, widgets, view, screen, pc, probe>>

Init ==
    /\ workbook \in GoodBooks \cup FaultBooks
    /\ cache = <<>>
    /\ widgets = NoWidgets
    /\ view = NoView
    /\ screen = {}
    /\ pc = "start"
    /\ probe = NoProbe

Next == LoadFails \/ LoadAndRun \/ Rerun \/ ReplaceWorkbook

Spec == Init /\ [][Next]_vars

-----------------------------------------------------------------------------
(* The filter as a function: applied once, and again to its own result *)

FilterOnce ==
    /\ probe.stage = 0
    /\ \E c \in Criteria(JoinAll(workbook)) :
        probe' = [stage |-> 1, criteria |-> c,
                  once |-> ApplyFilters(JoinAll(workbook), c)]
    /\ UNCHANGED <<workbook, cache, widgets, view, screen, pc>>

FilterAgain ==
    /\ probe.stage = 1
    /\ probe' = [stage |-> 2, criteria |-> probe.criteria, once |-> probe.once,
                 twice |-> ApplyFilters(probe.once, probe.criteria)]
    /\ UNCHANGED <<workbook, cache, widgets, view, screen, pc>>

InitFilter ==
    /\ workbook \in GoodBooks
    /\ cache = <<>>
    /\ widgets = NoWidgets
    /\ view = NoView
    /\ screen = {}
    /\ pc = "start"
    /\ probe = NoProbe

NextFilter == FilterOnce \/ FilterAgain

SpecFilter == InitFilter /\ [][NextFilter]_vars

-----------------------------------------------------------------------------
(* Properties *)

\* a script run has computed the page (to its end, or to an exception)
Ran == pc \in {"done", "crashed"}

\* the k-th smallest element of the set of numbers S
Kth(S, k) == CHOOSE i \in S : Cardinality({j \in S : j < i}) = k - 1

\* the rows of t at the positions I, in order, are exactly the sequence f
IsSelection(f, t, I) ==
    /\ Len(f) = Cardinality(I)
    /\ \A k \in DOMAIN f : f[k] = t[Kth(I, k)]

InRange(d, lower, upper) == Ordinal(lower) <= Ordinal(d) /\ Ordinal(d) <= Ordinal(upper)

\* C1: with both date bounds given, filtered_data consists of exactly the rows
\* of the full table whose order date lies in [lower, upper] and whose region,
\* category and segment are selected, each once, unchanged and in order.
C1_FilterKeepsExactlyTheMatchingRows ==
    (Ran /\ Len(widgets.date_range) = 2) =>
        LET data == cache[1]
            kept == {i \in DOMAIN data :
                        /\ InRange(data[i].OrderDate, widgets.date_range[1],
                                   widgets.date_range[2])
                        /\ data[i].Region \in widgets.regions
                        /\ data[i].Category \in widgets.categories
                        /\ data[i].Segment \in widgets.segments}
        IN  IsSelection(view.filtered_data, cache[1], kept)

\* C1 witness: a two-bound run that keeps a row dated on the upper bound and
\* drops a row only for its date
C1_Witness ==
    /\ Ran
    /\ Len(widgets.date_range) = 2
    /\ \E r \in Range(view.filtered_data) : r.OrderDate = widgets.date_range[2]
    /\ \E r \in Range(cache[1]) :
        /\ ~InRange(r.OrderDate, widgets.date_range[1], widgets.date_range[2])
        /\ r.Region \in widgets.regions
        /\ r.Category \in widgets.categories
        /\ r.Segment \in widgets.segments

Loaded == cache # <<>>

\* the joined table has one row per Orders row, in order, carrying the order's
\* own columns
OneRowPerOrder ==
    /\ Len(cache[1]) = Len(workbook.Orders)
    /\ \A i \in DOMAIN cache[1] :
        \A c \in DOMAIN workbook.Orders[i] : cache[1][i][c] = workbook.Orders[i][c]

\* an order without a matching lookup row has that lookup's columns null
NullWhereUnmatched ==
    \A r \in Range(cache[1]) :
        /\ (\A l \in Range(workbook.Location) : l.LocationID # r.LocationID)
            => r.Region = Null /\ r.State = Null
        /\ (\A c \in Range(workbook.Customers) : c.CustomerID # r.CustomerID)
            => r.CustomerName = Null /\ r.Segment = Null
        /\ (\A q \in Range(workbook.Products) : q.ProductID # r.ProductID)
            => r.Category = Null /\ r.SubCategory = Null
        /\ (\A m \in Range(workbook.SalesTeam) : m.SalesRep # r.SalesRep)
            => r.SalesTeam = Null

\* no key occurs in two rows of the sheet
UniqueKey(sheet, key) ==
    \A i, j \in DOMAIN sheet : sheet[i][key] = sheet[j][key] => i = j

UniqueLookupKeys ==
    /\ UniqueKey(workbook.Location, "LocationID")
    /\ UniqueKey(workbook.Customers, "CustomerID")
    /\ UniqueKey(workbook.Products, "ProductID")
    /\ UniqueKey(workbook.SalesTeam, "SalesRep")

\* C2 as stated: whatever the lookup sheets hold, the joined table has exactly
\* one row per Orders row, unmatched orders kept with null joined columns.
C2_OneRowPerOrderForAnyLookups ==
    Loaded => OneRowPerOrder /\ NullWhereUnmatched

\* C2 amended: when no lookup sheet repeats a key, the joined table has exactly
\* one row per Orders row, unmatched orders kept with null joined columns.
C2_OneRowPerOrderForUniqueKeys ==
    (Loaded /\ UniqueLookupKeys) => OneRowPerOrder /\ NullWhereUnmatched

\* C2 witness: unique keys, and an order whose Location ID matches no row
C2_Witness ==
    /\ Loaded
    /\ UniqueLookupKeys
    /\ Len(cache[1]) > 1
    /\ \E r \in Range(cache[1]) :
        /\ r.Region = Null
        /\ \A l \in Range(workbook.Location) : l.LocationID # r.LocationID

\* the Sales totals of every full grouping of the page
GroupedSales ==
    {SumCol(view.monthly_sales, "Sales"), SumCol(view.quarterly_data, "Sales"),
     SumCol(view.yearly_data, "Sales"), SumCol(view.region_sales, "Sales"),
     SumCol(view.category_data, "Sales"), SumCol(view.segment_data, "Sales"),
     SumCol(view.ship_data, "Sales")}

\* C3: for a non-empty filtered set, each full grouping (month, year/quarter,
\* year, region, category, segment, ship mode) has the same Sales total as the
\* filtered set, rows with a null grouping key included.
C3_GroupedSalesEqualTotal ==
    (Ran /\ view.filtered_data # <<>>) =>
        \A total \in GroupedSales : total = SumCol(view.filtered_data, "Sales")

Rollups ==
    {view.monthly_sales, view.quarterly_data, view.yearly_data, view.region_sales,
     view.top_states, view.region_profit, view.category_data, view.subcat_sales,
     view.cat_margin, view.segment_data, view.ship_data, view.top_customers,
     view.ship_time, view.rfm_data}

\* C4: on an empty filtered set every rollup and the RFM table are empty and
\* no operation of the run raises (no maximum of nothing, no division by a
\* zero count).
C4_EmptySetNeverRaises ==
    (Ran /\ view.filtered_data = <<>>) =>
        /\ \A t \in Rollups : t = <<>>
        /\ view.summary.raised = "none"

Least(a, b) == IF a < b THEN a ELSE b

\* res is the top n of the grouped rows: min(n, groups) rows, non-increasing
\* Sales, none left out that is larger than one taken, equal Sales in the order
\* of the grouped rows (which groupby leaves in key order)
IsStableTop(res, groups, key, n) ==
    /\ Len(res) = Least(n, Len(groups))
    /\ Range(res) \subseteq Range(groups)
    /\ \A i, j \in DOMAIN res :
        i < j => \/ res[i].Sales > res[j].Sales
                 \/ /\ res[i].Sales = res[j].Sales
                    /\ Rank(res[i][key]) < Rank(res[j][key])
    /\ \A g \in Range(groups) \ Range(res) :
        \A i \in DOMAIN res :
            \/ g.Sales < res[i].Sales
            \/ g.Sales = res[i].Sales /\ Rank(res[i][key]) < Rank(g[key])

\* C5: each top-N table holds min(N, distinct keys) rows in non-increasing
\* summed Sales, the N largest, keys of equal Sales in their order before the
\* sort.
C5_TopNSortedAndStable ==
    Ran =>
        /\ IsStableTop(view.top_states, state_sales(view.filtered_data),
                       "State", TopStates)
        /\ IsStableTop(view.subcat_sales, subcat_group(view.filtered_data),
                       "SubCategory", TopSubCategories)
        /\ IsStableTop(view.top_customers, customer_group(view.filtered_data),
                       "CustomerName", TopCustomers)

\* the RFM row of customer id over the filtered rows f
IsRFMRow(row, f) ==
    LET mine == {i \in DOMAIN f : f[i].CustomerID = row.CustomerID}
    IN  /\ mine # {}
        /\ \E last \in mine, newest \in DOMAIN f :
            /\ \A i \in mine : Ordinal(f[i].OrderDate) <= Ordinal(f[last].OrderDate)
            /\ \A i \in DOMAIN f :
                Ordinal(f[i].OrderDate) <= Ordinal(f[newest].OrderDate)
            /\ row.Recency =
                Ordinal(f[newest].OrderDate) - Ordinal(f[last].OrderDate)
        /\ row.Frequency = Cardinality(mine)
        /\ row.Monetary = SumSet(mine, [i \in mine |-> f[i].Sales])

\* the filtered set is the example of the claim: two orders of one customer,
\* on 2023-01-01 for 100 and on 2023-01-10 for 50
RFMExample ==
    /\ Ran
    /\ Len(view.filtered_data) = 2
    /\ view.filtered_data[1].CustomerID = view.filtered_data[2].CustomerID
    /\ \E i, j \in {1, 2} :
        /\ view.filtered_data[i].OrderDate = <<2023, 1, 1>>
        /\ view.filtered_data[i].Sales = 100
        /\ view.filtered_data[j].OrderDate = <<2023, 1, 10>>
        /\ view.filtered_data[j].Sales = 50

\* C6: on a non-empty filtered set the RFM table has exactly one row per
\* customer id of the set, with Recency = days from that customer's latest
\* order to the latest order of the set, Frequency = number of the customer's
\* orders, Monetary = sum of their Sales; the example gives 0, 2, 150.
C6_RFMRowPerCustomer ==
    (Ran /\ view.filtered_data # <<>>) =>
        LET f == view.filtered_data
            rows == view.rfm_data
        IN  /\ {rows[k].CustomerID : k \in DOMAIN rows}
                = {f[i].CustomerID : i \in DOMAIN f}
            /\ \A k, m \in DOMAIN rows :
                rows[k].CustomerID = rows[m].CustomerID => k = m
            /\ \A k \in DOMAIN rows : IsRFMRow(rows[k], f)
            /\ RFMExample =>
                /\ Len(rows) = 1
                /\ rows[1].Recency = 0
                /\ rows[1].Frequency = 2
                /\ rows[1].Monetary = 150

\* C6 witness: the example has been scored
C6_Witness == RFMExample /\ Len(view.rfm_data) = 1

\* every profit margin the run computed from a Sales of 0
ZeroSalesMargins ==
    {r.Profit_Margin : r \in {x \in Range(view.filtered_data) : x.Sales = 0}}
    \cup {g.Profit_Margin : g \in {x \in Range(view.region_profit) : x.Sales = 0}}
    \cup {view.cat_margin[i].Profit_Margin :
            i \in {j \in DOMAIN view.cat_margin : view.category_data[j].Sales = 0}}
    \cup (IF view.kpi.total_sales = 0 THEN {view.kpi.profit_margin} ELSE {})

\* C7: the margin of a record, of a region, of a category and of the whole
\* set is, when the Sales it divides by is 0, one and the same defined value,
\* and not an infinity.
C7_OneSentinelForZeroSales ==
    Ran =>
        /\ Cardinality(ZeroSalesMargins) <= 1
        /\ \A m \in ZeroSalesMargins : m.k \notin {"inf", "-inf"}

\* C8: filtering the filtered table again with the same criteria changes
\* nothing.
C8_FilterIdempotent ==
    probe.stage = 2 => probe.twice = probe.once

\* C8 witness: a second application to a table the first one had shortened,
\* under a one-bound date range
C8_Witness ==
    /\ probe.stage = 2
    /\ probe.once # <<>>
    /\ Len(probe.once) < Len(JoinAll(workbook))
    /\ Len(probe.criteria.date_range) = 1

\* C9: an empty region, category or segment selection gives an empty filtered
\* set, whatever the other widgets hold.
C9_EmptySelectionGivesEmptySet ==
    (Ran /\ (widgets.regions = {} \/ widgets.categories = {} \/ widgets.segments = {}))
        => view.filtered_data = <<>>

\* C9 witness: no region selected, everything else selected, one date bound
C9_Witness ==
    /\ Ran
    /\ widgets.regions = {}
    /\ widgets.categories = Unique(cache[1], "Category")
    /\ widgets.segments = Unique(cache[1], "Segment")
    /\ Len(widgets.date_range) = 1
    /\ view.filtered_data = <<>>

\* C10: a failed load stops the run with nothing computed and nothing cached,
\* and the box shown for a missing join key column is of another kind than the
\* box shown for a missing file or sheet.
C10_LoadErrorsStopAndDiffer ==
    /\ pc = "stopped" => view = NoView /\ cache = <<>> /\ screen # {}
    /\ \A a, b \in screen :
        (a.cause = "join key column missing"
            /\ b.cause \in {"file missing", "sheet missing"}) => a.box # b.box

\* C11: no step changes the table it is given: the cached full table is still
\* the table load_data built, and the filtered working set is at the end of
\* the run what the filter step produced, no column added.
C11_NoOperationMutatesItsInput ==
    Ran =>
        /\ cache[1] = JoinAll(workbook)
        /\ view.working_set = view.filtered_data

\* the bucket of a Discount of x percent when each range is closed on the left
\* and the last one on both sides: [0, 10), [10, 20), [20, 30), [30, 100]
LeftClosedBucket(x) ==
    IF x < 10 THEN "0-10%"
    ELSE IF x < 20 THEN "10-20%"
    ELSE IF x < 30 THEN "20-30%"
    ELSE "30%+"

\* C12: every record with 0 <= Discount <= 1 is assigned the bucket of the
\* left-closed ranges (0 in "0-10%", 0.1 in "10-20%", 0.3 and 1.0 in "30%+"),
\* and each listed bucket's value is the mean Profit of the records so assigned.
C12_DiscountBucketsLeftClosed ==
    Ran =>
        /\ \A r \in Range(view.working_set) :
            r.Discount \in 0..100 => r.Discount_Range = LeftClosedBucket(r.Discount)
        /\ \A obs \in BOOLEAN :
            \A b \in Range(view.discount_impact[obs]) :
                b.Profit = Mean(SelectSeq(view.filtered_data,
                                          LAMBDA r : /\ r.Discount \in 0..100
                                                     /\ LeftClosedBucket(r.Discount)
                                                            = b.Discount_Range),
                                "Profit")

\* C13: when the date range does not hold two bounds (one date picked, or
\* none), filtered_data consists of exactly the rows whose region, category and
\* segment are selected, whatever their order date; the filter step raises
\* nothing, the run goes on to the rollups.
C13_OneBoundDateIsPassThrough ==
    (Ran /\ Len(widgets.date_range) # 2) =>
        LET data == cache[1]
            kept == {i \in DOMAIN data :
                        /\ data[i].Region \in widgets.regions
                        /\ data[i].Category \in widgets.categories
                        /\ data[i].Segment \in widgets.segments}
        IN  /\ IsSelection(view.filtered_data, data, kept)
            /\ view.kpi.total_orders = Cardinality(kept)

\* C13 witness: one date picked; a row dated before it is kept, and a row is
\* dropped for its region
C13_Witness ==
    /\ Ran
    /\ Len(widgets.date_range) = 1
    /\ \E r \in Range(view.filtered_data) :
        Ordinal(r.OrderDate) < Ordinal(widgets.date_range[1])
    /\ \E r \in Range(cache[1]) : r.Region \notin widgets.regions

\* the rows of t shipped before they were ordered
NegativeLead(t) == SelectSeq(t, LAMBDA r : r.Days_to_Ship < 0)

\* the rows of t with a lead time of 0 days or more
SoundLead(t) == SelectSeq(t, LAMBDA r : r.Days_to_Ship >= 0)

\* the operator has been shown a notice about a negative lead time
LeadAnomalyShown == \E b \in screen : b.cause = "negative lead time"

\* C14: a row whose Ship Date is before its Order Date stops neither the load
\* nor the run, and it is not silently averaged: either the anomaly is
\* reported, or the shipping-time averages are those of the other rows.
C14_NegativeLeadIsFlagged ==
    (Ran /\ NegativeLead(view.filtered_data) # <<>>) =>
        \/ LeadAnomalyShown
        \/ /\ view.ship_time = ship_time(SoundLead(view.filtered_data))
           /\ view.summary.raised = "none" =>
                view.summary.avg_shipping_days
                    = Mean(SoundLead(view.filtered_data), "Days_to_Ship")

====
